---- MODULE Spec2Model ----
(***************************************************************************)
(* Model of mcp/pf2e_server.py: the index builder build_global_index, the  *)
(* module-level INDEX and the tool handler pf2e_search.                    *)
(*                                                                         *)
(* Text is modelled as a sequence of one-character strings wherever the    *)
(* code inspects characters (file names, keys), and as a sequence of       *)
(* string pieces where the code only concatenates (the handler's output).  *)
(* A path is a record [dir, file]: dir is the sequence of directory names  *)
(* and file the file name, so that os.path.join, dirname and basename are  *)
(* the operations they are in the code.                                    *)
(***************************************************************************)
EXTENDS Integers, Sequences, FiniteSets, TLC

VARIABLES
    phase,       \* "building" (line 24 running), "serving" (mcp.run), "failed"
    status,      \* the data tree: path -> "ok" | "bad" (unparsable) | "gone"
    todo,        \* os.walk: directories not yet yielded
    root,        \* os.walk: directory being listed (line 15)
    files,       \* os.walk: file names of root not yet iterated (line 16)
    global_map,  \* build_global_index's local dict (line 13)
    visitLog,    \* files the walk has iterated over so far, in order
    INDEX,       \* the module global (line 24); empty until it is assigned
    scorer,      \* query -> the scores the ranker has given keys so far
    last,        \* <<the most recent pf2e_search call>>, <<>> once files change
    seen,        \* query -> outcome of its first call since the files changed
    changes      \* number of deletions/corruptions of files so far

vars == <<phase, status, todo, root, files, global_map, visitLog, INDEX,
          scorer, last, seen, changes>>

----------------------------------------------------------------------------
(* Bounds of the model *)

\* at most this many files in the data tree
MaxFiles == 4
\* at most this many files deleted or corrupted after startup
MaxFsChanges == 1

----------------------------------------------------------------------------
(* Strings *)

\* ".json", the literal of lines 17 and 19
Ext == <<".", "j", "s", "o", "n">>

\* str.endswith
endswith(s, suf) ==
    /\ Len(suf) <= Len(s)
    /\ \A j \in 1..Len(suf) : s[Len(s) - Len(suf) + j] = suf[j]

\* does pat occur in s at position i
OccursAt(s, i, pat) ==
    /\ i + Len(pat) - 1 <= Len(s)
    /\ \A j \in 1..Len(pat) : s[i + j - 1] = pat[j]

\* str.replace(old, new): every non-overlapping occurrence, left to right
RECURSIVE ReplaceFrom(_, _, _, _)
ReplaceFrom(s, i, old, new) ==
    IF i > Len(s) THEN <<>>
    ELSE IF OccursAt(s, i, old)
         THEN new \o ReplaceFrom(s, i + Len(old), old, new)
         ELSE <<s[i]>> \o ReplaceFrom(s, i + 1, old, new)

replace(s, old, new) == ReplaceFrom(s, 1, old, new)

\* line 19: file.replace(".json", "").replace(";", ":").replace("_", " ")
name_key(file) ==
    replace(replace(replace(file, Ext, <<>>), <<";">>, <<":">>), <<"_">>, <<" ">>)

\* the letters that occur in the modelled names, and their upper case
Lower == <<"a", "b", "c", "e", "f", "g", "i", "j", "n", "o", "r", "s", "t", "x">>
Upper == <<"A", "B", "C", "E", "F", "G", "I", "J", "N", "O", "R", "S", "T", "X">>
IsLetter(c) == \E i \in 1..Len(Lower) : Lower[i] = c \/ Upper[i] = c
ToUpper(c) == IF \E i \in 1..Len(Lower) : Lower[i] = c
              THEN Upper[CHOOSE i \in 1..Len(Lower) : Lower[i] = c] ELSE c
ToLower(c) == IF \E i \in 1..Len(Upper) : Upper[i] = c
              THEN Lower[CHOOSE i \in 1..Len(Upper) : Upper[i] = c] ELSE c

\* str.title(): a letter is upper-cased after a non-letter (or at the start)
\* and lower-cased after a letter
title(s) ==
    [i \in 1..Len(s) |->
        IF i = 1 \/ ~IsLetter(s[i - 1]) THEN ToUpper(s[i]) ELSE ToLower(s[i])]

----------------------------------------------------------------------------
(* Paths *)

\* line 7
DATA_PATH == <<"pf2ools-data", "core">>

\* os.path.join(root, file)
join(dir, file) == [dir |-> dir, file |-> file]
\* os.path.dirname(path)
dirname(path) == path.dir
\* os.path.basename of a directory
basename(dir) == dir[Len(dir)]

----------------------------------------------------------------------------
(* dict: insertion-ordered, as a sequence of <<key, value>> *)

keys(d) == [i \in 1..Len(d) |-> d[i][1]]
KeySet(d) == {d[i][1] : i \in 1..Len(d)}
values(d) == {d[i][2] : i \in 1..Len(d)}
getitem(d, k) == d[CHOOSE i \in 1..Len(d) : d[i][1] = k][2]

\* a dict that never overwrites: d.setdefault(k, v)
setitemFirstWins(d, k, v) ==
    IF k \in KeySet(d) THEN d ELSE Append(d, <<k, v>>)

\* d[k] = v: a known key keeps its position and takes the new value
setitem(d, k, v) ==
    IF k \in KeySet(d)
    THEN [i \in 1..Len(d) |-> IF d[i][1] = k THEN <<k, v>> ELSE d[i]]
    ELSE Append(d, <<k, v>>)

----------------------------------------------------------------------------
(* The data tree the server is started on *)

Spell == Append(DATA_PATH, "spell")
Condition == Append(DATA_PATH, "condition")
\* os.walk yields the top directory first, then its subdirectories
Dirs == {DATA_PATH, Spell, Condition}

\* "fire.json", "fire_b.json", "g;c.json", "n.json.json", "r.txt"
FireJson == <<"f", "i", "r", "e">> \o Ext
FireBJson == <<"f", "i", "r", "e", "_", "b">> \o Ext
GCJson == <<"g", ";", "c">> \o Ext
NJsonJson == <<"n">> \o Ext \o Ext
RTxt == <<"r", ".", "t", "x", "t">>

\* the files a data tree is drawn from: "fire.json" exists in two categories
Pool == {join(Spell, FireJson), join(Spell, FireBJson), join(Spell, RTxt),
         join(Condition, GCJson), join(Condition, FireJson),
         join(DATA_PATH, NJsonJson)}

\* the text of a document file: one JSON object, written compactly in one
\* category and with spaces in the others
FileText(path) ==
    IF dirname(path) = Spell
    THEN <<"{", "\"name\"", ":", "\"spell doc\"", "}">>
    ELSE <<"{", " ", "\"name\"", " ", ":", " ", "\"other doc\"", " ", "}">>

\* the text of a file that was cut off while being rewritten
Truncated == <<"{", "\"name\"">>

\* what open(file_path).read() yields for a file that exists
read(path, st) == IF st[path] = "ok" THEN FileText(path) ELSE Truncated

----------------------------------------------------------------------------
(* json *)

IsSpace(tok) == tok \in {" ", "\n", "  "}
NotSpace(tok) == ~IsSpace(tok)

\* json.load: whitespace between tokens is dropped; anything but one object
\* with the one member is a JSONDecodeError
json_load(text) ==
    LET toks == SelectSeq(text, NotSpace) IN
    IF /\ Len(toks) = 5
       /\ toks[1] = "{" /\ toks[2] = "\"name\"" /\ toks[3] = ":" /\ toks[5] = "}"
    THEN [ok |-> TRUE, data |-> [name |-> toks[4]]]
    ELSE [ok |-> FALSE, data |-> [name |-> ""]]

\* json.dumps(data, indent=2)
json_dumps(data) ==
    <<"{", "\n", "  ", "\"name\"", ":", " ", data.name, "\n", "}">>

----------------------------------------------------------------------------
(* The ranker: thefuzz.process.extract (line 33) *)

\* line 36: the confidence threshold
Threshold == 60
\* line 33: limit=3
Limit == 3

\* the queries the model calls the tool with
Queries == {"firebal", ""}

\* the similarity scores the ranker may give a key for a query, on its scale
\* of 0..100: a query without any letter or digit scores 0 against every key
Scores(query) == IF query = "" THEN {0} ELSE {60, 61}

\* what process.extract yields for one choice when the choices are not a
\* mapping (INDEX.keys() is a view of the keys, without .items()): the pair
\* (choice, score)
MatchTuple(choice, score) == <<choice, score>>

RemoveAt(s, i) == SubSeq(s, 1, i - 1) \o SubSeq(s, i + 1, Len(s))

\* the n best choices by score, best first; equal scores keep the order of
\* the choices
RECURSIVE extract(_, _, _)
extract(choices, sc, n) ==
    IF n = 0 \/ choices = <<>> THEN <<>>
    ELSE LET best == CHOOSE i \in 1..Len(choices) :
                        \A j \in 1..Len(choices) :
                            \/ sc[choices[j]] < sc[choices[i]]
                            \/ sc[choices[j]] = sc[choices[i]] /\ i <= j
         IN <<MatchTuple(choices[best], sc[choices[best]])>>
                \o extract(RemoveAt(choices, best), sc, n - 1)

----------------------------------------------------------------------------
(* pf2e_search (lines 27-50) *)

Return(text) == [kind |-> "return", text |-> text]
Raise(exception) == [kind |-> "raise", text |-> <<exception>>]

\* a filter that lets a score equal to the threshold through
IsGoodAtLeast(m) == m[2] >= Threshold

\* line 36: m[1] > 60
IsGood(m) == m[2] > Threshold

\* line 39
NoRulesFound(query) == <<"No rules found matching '", query, "'.">>

\* line 42: "for match_name, score, _ in good_matches" takes a match apart
\* into exactly three names; any other length is a ValueError
Unpacks(m) == Len(m) = 3

\* line 48: the labelled block of one document
Block(match_name, category, data) ==
    <<"--- MATCH: ">> \o title(match_name) \o <<" (", category, ") --- \n">>
        \o json_dumps(data)

\* "\n\n".join(results)
RECURSIVE JoinBlocks(_)
JoinBlocks(results) ==
    IF results = <<>> THEN <<>>
    ELSE IF Len(results) = 1 THEN results[1]
    ELSE results[1] \o <<"\n\n">> \o JoinBlocks(Tail(results))

\* lines 41-50: the loop over good_matches from its i-th element on, with
\* the blocks built and the files opened so far
RECURSIVE Retrieve(_, _, _, _, _, _)
Retrieve(good, i, idx, st, results, opens) ==
    IF i > Len(good)
    THEN [outcome |-> Return(JoinBlocks(results)), opens |-> opens]
    ELSE IF ~Unpacks(good[i])
    THEN [outcome |-> Raise("ValueError"), opens |-> opens]
    ELSE LET match_name == good[i][1]
             file_path == getitem(idx, match_name)
             tried == Append(opens, file_path)
         IN IF st[file_path] = "gone"
            THEN [outcome |-> Raise("FileNotFoundError"), opens |-> tried]
            ELSE LET parsed == json_load(read(file_path, st)) IN
                 IF ~parsed.ok
                 THEN [outcome |-> Raise("JSONDecodeError"), opens |-> tried]
                 ELSE Retrieve(good, i + 1, idx, st,
                               Append(results,
                                      Block(match_name,
                                            basename(dirname(file_path)),
                                            parsed.data)),
                               tried)

\* one call of the handler on index idx, with the ranker scoring by sc and
\* the files in state st
pf2e_search(query, idx, sc, st) ==
    LET matches == extract(keys(idx), sc, Limit)
        good_matches == SelectSeq(matches, IsGood)
        r == IF good_matches = <<>>
             THEN [outcome |-> Return(NoRulesFound(query)), opens |-> <<>>]
             ELSE Retrieve(good_matches, 1, idx, st, <<>>, <<>>)
    IN [query |-> query, index |-> idx, files |-> st,
        matches |-> matches, good |-> good_matches,
        outcome |-> r.outcome, opens |-> r.opens]

\* a handler that drops the entries it has matched from the index
IndexPopMatched(idx, good) ==
    SelectSeq(idx, LAMBDA e : \A i \in 1..Len(good) : good[i][1] # e[1])

\* the index after a call: the handler only reads INDEX (lines 33 and 43)
IndexAfterSearch(idx, good) == idx

----------------------------------------------------------------------------
(* Startup (lines 11-24, 52-53) and the serving process *)

\* a process that registers and runs the tool while the build is under way
CanServeEarly(ph) == ph # "failed"

\* mcp.run() (line 53) is reached only after line 24 has returned
CanServe(ph) == ph = "serving"

Init ==
    /\ phase = "building"
    /\ \E tree \in SUBSET Pool :
          /\ Cardinality(tree) <= MaxFiles
          /\ status = [p \in tree |-> "ok"]
    /\ todo = Dirs
    /\ root = <<>>
    /\ files = {}
    /\ global_map = <<>>
    /\ visitLog = <<>>
    /\ INDEX = <<>>
    /\ scorer = [q \in Queries |-> <<>>]
    /\ last = <<>>
    /\ seen = [q \in Queries |-> <<>>]
    /\ changes = 0

\* line 15: os.walk yields the next directory with the names of its files;
\* the top directory comes first, the order of the others is the file
\* system's
WalkDir(d) ==
    /\ phase = "building"
    /\ files = {}
    /\ d \in todo
    /\ DATA_PATH \in todo => d = DATA_PATH
    /\ todo' = todo \ {d}
    /\ root' = d
    /\ files' = {p.file : p \in {x \in DOMAIN status : x.dir = d}}
    /\ UNCHANGED <<phase, status, global_map, visitLog, INDEX, scorer, last,
                   seen, changes>>

\* lines 16-20: one iteration of the inner loop, in the file system's order
VisitFile(file) ==
    /\ phase = "building"
    /\ file \in files
    /\ files' = files \ {file}
    /\ visitLog' = Append(visitLog, join(root, file))
    /\ global_map' = IF endswith(file, Ext)
                     THEN setitem(global_map, name_key(file), join(root, file))
                     ELSE global_map
    /\ UNCHANGED <<phase, status, todo, root, INDEX, scorer, last, seen,
                   changes>>

WalkComplete == phase = "building" /\ todo = {} /\ files = {}

\* lines 21 and 24: the walk is over, the map is returned and bound to INDEX;
\* the function's frame is gone
BuildReturn ==
    /\ WalkComplete
    /\ INDEX' = global_map
    /\ phase' = "serving"
    /\ root' = <<>>
    /\ global_map' = <<>>
    /\ visitLog' = <<>>
    /\ UNCHANGED <<status, todo, files, scorer, last, seen, changes>>

\* an exception out of line 24 ends the module's execution: line 53 is never
\* reached
BuildFail ==
    /\ phase = "building"
    /\ phase' = "failed"
    /\ UNCHANGED <<status, todo, root, files, global_map, visitLog, INDEX,
                   scorer, last, seen, changes>>

\* one tool call. The ranker is deterministic: the score it gave a key for a
\* query is the score it gives that key for that query again.
Search(query) ==
    /\ CanServe(phase)
    /\ \E sc \in {f \in [KeySet(INDEX) -> Scores(query)] :
                    \A k \in KeySet(INDEX) \cap DOMAIN scorer[query] :
                        f[k] = scorer[query][k]} :
          LET call == pf2e_search(query, INDEX, sc, status) IN
             /\ scorer' = [scorer EXCEPT ![query] = sc @@ scorer[query]]
             /\ last' = <<call @@ [repeat |-> seen[query] # <<>>]>>
             /\ seen' = IF seen[query] = <<>>
                        THEN [seen EXCEPT ![query] = <<call.outcome>>]
                        ELSE seen
             /\ INDEX' = IndexAfterSearch(INDEX, call.good)
    /\ UNCHANGED <<phase, status, todo, root, files, global_map, visitLog,
                   changes>>

\* somebody else removes a document file while the server runs; what was
\* observed of earlier calls says nothing about the files as they are now.
\* Only the files INDEX names are ever opened (line 43), so only their
\* changes are modelled.
DeleteFile(path) ==
    /\ phase = "serving"
    /\ changes < MaxFsChanges
    /\ path \in values(INDEX)
    /\ status[path] # "gone"
    /\ status' = [status EXCEPT ![path] = "gone"]
    /\ changes' = changes + 1
    /\ seen' = [q \in Queries |-> <<>>]
    /\ last' = <<>>
    /\ UNCHANGED <<phase, todo, root, files, global_map, visitLog, INDEX,
                   scorer>>

\* somebody else leaves a document file with unparsable content
CorruptFile(path) ==
    /\ phase = "serving"
    /\ changes < MaxFsChanges
    /\ path \in values(INDEX)
    /\ status[path] = "ok"
    /\ status' = [status EXCEPT ![path] = "bad"]
    /\ changes' = changes + 1
    /\ seen' = [q \in Queries |-> <<>>]
    /\ last' = <<>>
    /\ UNCHANGED <<phase, todo, root, files, global_map, visitLog, INDEX,
                   scorer>>

Next ==
    \/ \E d \in Dirs : WalkDir(d)
    \/ \E file \in files : VisitFile(file)
    \/ BuildReturn
    \/ BuildFail
    \/ \E query \in Queries : Search(query)
    \/ \E path \in Pool : DeleteFile(path)
    \/ \E path \in Pool : CorruptFile(path)

Spec == Init /\ [][Next]_vars

----------------------------------------------------------------------------
(* Claims *)

\* the calls made so far that the formulas speak about: the most recent one
Calls == {last[i] : i \in 1..Len(last)}

\* the matches of a call whose score exceeds 60, in the ranker's order
Survivors(c) == SelectSeq(c.matches, LAMBDA m : m[2] > 60)

\* the files of a call's surviving candidates, in the ranker's order
SurvivorPaths(c) ==
    [i \in 1..Len(Survivors(c)) |-> getitem(c.index, Survivors(c)[i][1])]

\* the files of the pool that end in ".json", and the key line 19 derives
\* from each
PoolJson == {p \in Pool : endswith(p.file, Ext)}
PoolKey == [p \in PoolJson |-> name_key(p.file)]

\* the ".json" files of the data tree the server was started on
JsonFiles == DOMAIN status \cap PoolJson

\* C1: when none of the (at most 3) ranked candidates scores above 60, the
\* call returns exactly "No rules found matching '<query>'." with the query
\* unchanged, and opens no file.
C1_NoResultsMessage ==
    \A c \in Calls :
        /\ Len(c.matches) <= 3
        /\ (\A j \in 1..Len(c.matches) : ~(c.matches[j][2] > 60)) =>
              /\ c.outcome = [kind |-> "return",
                              text |-> <<"No rules found matching '",
                                         c.query, "'.">>]
              /\ c.opens = <<>>

\* C1 witness: the ranker chose 3 of 4 keys for "firebal", one of them with
\* a score of exactly 60 and none above, and the call returned the message
C1_Witness ==
    \E c \in Calls :
        /\ c.query = "firebal"
        /\ Len(c.index) = 4 /\ Len(c.matches) = 3
        /\ \A j \in 1..3 : c.matches[j][2] = 60
        /\ c.outcome.kind = "return"

\* C2: a call with at least one candidate above 60 returns one labelled
\* block per surviving candidate, in the ranker's order, joined by "\n\n".
C2_ReturnsBlocks ==
    \A c \in Calls :
        Survivors(c) # <<>> =>
            /\ c.outcome.kind = "return"
            /\ c.outcome.text =
                  JoinBlocks([i \in 1..Len(Survivors(c)) |->
                      Block(Survivors(c)[i][1],
                            basename(dirname(SurvivorPaths(c)[i])),
                            json_load(read(SurvivorPaths(c)[i], c.files)).data)])

\* C3: the documents a call retrieves are exactly those of the ranked
\* candidates (at most 3) whose score is above 60.
C3_RetrievesSurvivors ==
    \A c \in Calls :
        /\ Len(c.opens) <= 3
        /\ {c.opens[i] : i \in 1..Len(c.opens)}
              = {SurvivorPaths(c)[i] : i \in 1..Len(Survivors(c))}

\* the key the claim describes: only the trailing extension is removed
StemKey(file) ==
    replace(replace(SubSeq(file, 1, Len(file) - Len(Ext)), <<";">>, <<":">>),
            <<"_">>, <<" ">>)

\* C4: every visited file ending in ".json" is entered under its base name
\* with only the trailing extension removed, ';' as ':' and '_' as ' '.
C4_KeyIsStem ==
    \A i \in 1..Len(visitLog) :
        endswith(visitLog[i].file, Ext) =>
            StemKey(visitLog[i].file) \in KeySet(global_map)

\* the position in the walk of the last file that derives key k
LastVisitOf(k) ==
    CHOOSE i \in 1..Len(visitLog) :
        /\ visitLog[i] \in PoolJson /\ PoolKey[visitLog[i]] = k
        /\ \A j \in (i + 1)..Len(visitLog) :
              ~(visitLog[j] \in PoolJson /\ PoolKey[visitLog[j]] = k)

\* C5: the map build_global_index returns has exactly one entry per distinct
\* key derived from the ".json" files, none for other files, and each entry
\* holds the path of the file visited last among those deriving its key.
C5_OneEntryPerKeyLastWins ==
    WalkComplete =>
        /\ \A i, j \in 1..Len(global_map) :
              global_map[i][1] = global_map[j][1] => i = j
        /\ KeySet(global_map) = {PoolKey[p] : p \in JsonFiles}
        /\ \A i \in 1..Len(global_map) :
              global_map[i][2] = visitLog[LastVisitOf(global_map[i][1])]

\* C5 witness: the walk is over; two files derived the same key and a file
\* without the extension was visited
C5_Witness ==
    /\ WalkComplete
    /\ \E i, j \in 1..Len(visitLog) :
          /\ i < j
          /\ visitLog[i] \in PoolJson /\ visitLog[j] \in PoolJson
          /\ PoolKey[visitLog[i]] = PoolKey[visitLog[j]]
    /\ \E i \in 1..Len(visitLog) : ~endswith(visitLog[i].file, Ext)
    /\ Len(global_map) >= 2

\* C6: a step of the serving process that is not somebody else's change to
\* the files (so: a pf2e_search call, whatever its outcome) leaves the index
\* and the files as they were.
C6_SearchChangesNothing ==
    [][phase = "serving" /\ changes' = changes =>
          INDEX' = INDEX /\ status' = status]_vars

\* C6 witness: a repeated call has failed, the other query has been served
\* too, and the index is the one the call read
C6_Witness ==
    \E c \in Calls :
        /\ c.repeat /\ c.outcome.kind = "raise"
        /\ \A q \in Queries : seen[q] # <<>>
        /\ Len(INDEX) >= 2 /\ INDEX = c.index

\* C7: a call with a surviving candidate whose file has been deleted does not
\* crash: it returns a result.
C7_DeletedFileIsReported ==
    \A c \in Calls :
        (\E i \in 1..Len(Survivors(c)) : c.files[SurvivorPaths(c)[i]] = "gone")
            => c.outcome.kind = "return"

\* C8: every call is served after the build has finished, on the complete
\* mapping (a key for every ".json" file of the tree, each held by a file
\* deriving it); after a failed build no call is served.
C8_IndexCompleteBeforeServing ==
    /\ phase = "failed" => last = <<>>
    /\ \A c \in Calls :
          /\ phase = "serving"
          /\ KeySet(c.index) = {PoolKey[p] : p \in JsonFiles}
          /\ \A i \in 1..Len(c.index) :
                /\ c.index[i][2] \in JsonFiles
                /\ PoolKey[c.index[i][2]] = c.index[i][1]

\* C8 witness: a call was served on an index of four keys
C8_Witness ==
    \E c \in Calls : Len(c.index) = 4 /\ Cardinality(JsonFiles) = 4

\* C9: with index and files unchanged, a repeated query has the outcome of
\* its first call, whatever was asked in between.
C9_Idempotent ==
    \A c \in Calls :
        c.repeat /\ seen[c.query] # <<>> => seen[c.query] = <<c.outcome>>

\* C9 witness: a query was repeated after the other query had been served,
\* and it has a surviving candidate
C9_Witness ==
    \E c \in Calls :
        /\ c.repeat /\ c.query = "firebal" /\ Survivors(c) # <<>>
        /\ seen["firebal"] = <<c.outcome>>
        /\ seen[""] # <<>>

\* the first surviving candidate of a call whose file is missing or unparsable
FirstBad(c) ==
    CHOOSE i \in 1..Len(Survivors(c)) :
        /\ c.files[SurvivorPaths(c)[i]] # "ok"
        /\ \A j \in 1..(i - 1) : c.files[SurvivorPaths(c)[j]] = "ok"

====
